---- MODULE Spec2Model ----
(***************************************************************************)
(* e1: Python binding (src/e1.py) of the e1 block codec.                   *)
(*                                                                         *)
(* The binding functions compress, decompress, decompress_file and         *)
(* e_compression are modelled from src/e1.py.  The native library          *)
(* (_libe1: e_comp, e_decomp) is not part of the sources; the codec is     *)
(* modelled from spec.md sections 3, 4 and 6 (DatatypeSizer, HeaderCodec,  *)
(* BlockEncoder, BlockDecoder, StreamCodec).                               *)
(*                                                                         *)
(* Two specifications:                                                     *)
(*   Spec        compress / decompress scenarios over the modelled codec   *)
(*   SpecBinding every binding function over an opaque native library      *)
(*               (any status 0..8, any output)                             *)
(***************************************************************************)
EXTENDS Integers, Sequences, FiniteSets

VARIABLES pc, data, nat, comp, plain, pad, padded,
          file, offset, fpos, fopen, op, count, dcall, ncall, ncalls, ret

vars == <<pc, data, nat, comp, plain, pad, padded,
          file, offset, fpos, fopen, op, count, dcall, ncall, ncalls, ret>>

codecVars == <<pc, data, nat, comp, plain, pad, padded>>
bindingVars == <<file, offset, fpos, fopen, op, count, dcall, ncall, ncalls, ret>>

(***************************************************************************)
(* Bounds of the model                                                     *)
(***************************************************************************)
\* sample sequences have lengths b * capacity + d, b <= MaxBlocks, |d| <= Delta
MaxBlocks == 2
Delta == 4
\* trailing bytes appended to a compressed stream: 1..MaxPad bytes
MaxPad == 5
\* files of 0..MaxFile bytes, sample counts 0..MaxCount
MaxFile == 23
MaxCount == 2

Min(a, b) == IF a < b THEN a ELSE b

(***************************************************************************)
(* Status taxonomy                                                         *)
(***************************************************************************)
ECStatus ==
    [EC_SUCCESS |-> 0, EC_FAILED |-> 1, EC_LENGTH_ERROR |-> 2,
     EC_SAMP_ERROR |-> 3, EC_DIFF_ERROR |-> 4, EC_CHECK_ERROR |-> 5,
     EC_ARG_ERROR |-> 6, EC_TYPE_ERROR |-> 7, EC_MEMORY_ERROR |-> 8]

\* ECStatus(status): the enum member with that value
ECStatusOf(status) == CHOOSE n \in DOMAIN ECStatus : ECStatus[n] = status

StatusCodes == {ECStatus[n] : n \in DOMAIN ECStatus}

E_MESSAGES ==
    << "operation succeeded",
       "operation failed",
       "number of bytes in data incorrect",
       "number of samples in data incorrect",
       "error in number of differences",
       "check value (last sample in block) incorrect",
       "error in arguments to function",
       "datatype incorrect",
       "memory allocation error" >>

(***************************************************************************)
(* Outcomes of a call of the binding                                       *)
(***************************************************************************)
NoValue == 0 - 1

\* a normal return of the data array alone
Return(d) ==
    [kind |-> "return", exc |-> "", msg |-> "", code |-> "",
     data |-> d, retval |-> NoValue]

\* raise Exception("e1 decompression error: {E_MESSAGES[status]} {ECStatus(status)!r}")
RaiseStatus(status) ==
    [kind |-> "raise", exc |-> "Exception", msg |-> E_MESSAGES[status + 1],
     code |-> ECStatusOf(status), data |-> << >>, retval |-> NoValue]

RaiseValueError(m) ==
    [kind |-> "raise", exc |-> "ValueError", msg |-> m, code |-> "",
     data |-> << >>, retval |-> NoValue]

\* the process dies (memory corrupted by a write past a buffer)
Crash ==
    [kind |-> "crash", exc |-> "", msg |-> "", code |-> "",
     data |-> << >>, retval |-> NoValue]

NoResult ==
    [kind |-> "none", exc |-> "", msg |-> "", code |-> "",
     data |-> << >>, retval |-> NoValue]

(***************************************************************************)
(* Bytes and words (big-endian, two's complement)                          *)
(***************************************************************************)
Zeros(n) == [i \in 1..n |-> 0]

\* unsigned 16-bit field
be16(n) == << n \div 256, n % 256 >>
u16(b, off) == b[off + 1] * 256 + b[off + 2]

\* the 4 bytes of an unsigned 31-bit value
ube32(u) ==
    << u \div 16777216, (u \div 65536) % 256, (u \div 256) % 256, u % 256 >>

\* signed 32-bit sample -> 4 bytes
be32(s) ==
    IF s >= 0 THEN ube32(s)
    ELSE LET m == ube32(-(s + 1)) IN [i \in 1..4 |-> 255 - m[i]]

\* 4 bytes at offset off -> signed 32-bit sample
i32(b, off) ==
    LET u == (b[off + 1] % 128) * 16777216 + b[off + 2] * 65536
             + b[off + 3] * 256 + b[off + 4]
    IN  IF b[off + 1] >= 128 THEN (u - 2147483647) - 1 ELSE u

\* signed 16-bit sample -> 2 bytes, and back
sbe16(s) == IF s >= 0 THEN be16(s) ELSE be16(65536 + s)
i16(b, off) ==
    LET u == u16(b, off) IN IF u >= 32768 THEN u - 65536 ELSE u

FitsInt16(s) == s >= -32768 /\ s <= 32767

(***************************************************************************)
(* DatatypeSizer                                                           *)
(***************************************************************************)
\* the datatype compress passes: ctypes.create_string_buffer(b'e1', 2)
datatype == [letter |-> "e", digit |-> 1]

\* byte budget of one block
capacity_bytes(spec) ==
    IF spec.letter = "e"
    THEN (IF spec.digit = 0 THEN 1024 ELSE spec.digit * 2048)
    ELSE (IF spec.digit = 0 THEN 1200 ELSE (spec.digit + 1) * 400)

\* two words are reserved for the header and the check value
capacity_samples(spec) == capacity_bytes(spec) \div 4 - 2

block_count(total_samples, spec) ==
    (total_samples + capacity_samples(spec) - 1) \div capacity_samples(spec)

(***************************************************************************)
(* HeaderCodec: byte_length and sample_count, two big-endian uint16        *)
(***************************************************************************)
write_header(byte_length, sample_count) ==
    be16(byte_length) \o be16(sample_count)

read_header(buf, off) ==
    [byte_length |-> u16(buf, off), sample_count |-> u16(buf, off + 2)]

(***************************************************************************)
(* BlockEncoder.  The payload packs the samples two to a word when every   *)
(* sample of the chunk fits 16 bits and the chunk has at least two         *)
(* samples, one to a word otherwise; its last word is the check value, the *)
(* chunk's last sample in the clear.                                       *)
(***************************************************************************)
Narrow(chunk) ==
    Len(chunk) >= 2 /\ \A i \in 1..Len(chunk) : FitsInt16(chunk[i])

check_value(chunk) == IF Len(chunk) = 0 THEN 0 ELSE chunk[Len(chunk)]

pack_wide(chunk) ==
    [i \in 1..(4 * Len(chunk)) |-> be32(chunk[(i - 1) \div 4 + 1])[((i - 1) % 4) + 1]]

pack_narrow(chunk) ==
    LET k == Len(chunk)
        half(j) == IF j <= k THEN sbe16(chunk[j]) ELSE << 0, 0 >>
    IN  [i \in 1..(4 * ((k + 1) \div 2)) |-> half((i - 1) \div 2 + 1)[((i - 1) % 2) + 1]]

encode_payload(chunk) ==
    (IF Narrow(chunk) THEN pack_narrow(chunk) ELSE pack_wide(chunk))
        \o be32(check_value(chunk))

\* one header-prefixed block; MEMORY_ERROR when it exceeds the byte budget
encode(chunk, spec, flag) ==
    LET payload == encode_payload(chunk)
        byte_length == 4 + Len(payload)
    IN  IF byte_length > capacity_bytes(spec)
        THEN [status |-> ECStatus.EC_MEMORY_ERROR, bytes |-> << >>,
              flag |-> flag, sample_count |-> Len(chunk), byte_length |-> 0]
        ELSE [status |-> ECStatus.EC_SUCCESS,
              bytes |-> write_header(byte_length, Len(chunk)) \o payload,
              flag |-> flag, sample_count |-> Len(chunk),
              byte_length |-> byte_length]

(***************************************************************************)
(* StreamCodec, encoding: the native e_comp                                *)
(***************************************************************************)
chunk_of(samples, j, spec) ==
    SubSeq(samples, (j - 1) * capacity_samples(spec) + 1,
           Min(j * capacity_samples(spec), Len(samples)))

\* FULL_END for every chunk except the last, which is SHORT_END
flag_of(j, nblocks) == IF j < nblocks THEN "FULL_END" ELSE "SHORT_END"

RECURSIVE compress_blocks(_, _, _, _)
compress_blocks(samples, spec, j, nblocks) ==
    IF j > nblocks
    THEN [status |-> ECStatus.EC_SUCCESS, stream |-> << >>, blocks |-> << >>]
    ELSE LET b == encode(chunk_of(samples, j, spec), spec, flag_of(j, nblocks))
         IN  IF b.status # ECStatus.EC_SUCCESS
             THEN [status |-> b.status, stream |-> << >>, blocks |-> << >>]
             ELSE LET rest == compress_blocks(samples, spec, j + 1, nblocks)
                  IN  IF rest.status # ECStatus.EC_SUCCESS THEN rest
                      ELSE [status |-> ECStatus.EC_SUCCESS,
                            stream |-> b.bytes \o rest.stream,
                            blocks |-> << [flag |-> b.flag,
                                           sample_count |-> b.sample_count,
                                           byte_length |-> b.byte_length] >>
                                       \o rest.blocks]

\* e_comp(in, out, insamp, outbytes, datatype, block_flag): what the encoder
\* writes at out (stream) and stores in *outbytes
e_comp(in, spec) ==
    LET r == compress_blocks(in, spec, 1, block_count(Len(in), spec))
    IN  [status |-> r.status, stream |-> r.stream,
         outbytes |-> Len(r.stream), blocks |-> r.blocks]

(***************************************************************************)
(* BlockDecoder and StreamCodec, decoding: the native e_decomp             *)
(***************************************************************************)
unpack_wide(buf, off, k) == [j \in 1..k |-> i32(buf, off + 4 * (j - 1))]
unpack_narrow(buf, off, k) == [j \in 1..k |-> i16(buf, off + 2 * (j - 1))]

\* decode the block at off; inbyte bounds the readable input
decode(buf, off, inbyte) ==
    LET h == read_header(buf, off)
        words == (h.byte_length - 8) \div 4
        k == h.sample_count
        samples == IF words = k THEN unpack_wide(buf, off + 4, k)
                   ELSE unpack_narrow(buf, off + 4, k)
        fail(st) == [status |-> st, samples |-> << >>, bytes_consumed |-> 0]
    IN  IF off + 4 > inbyte THEN fail(ECStatus.EC_LENGTH_ERROR)
        ELSE IF off + h.byte_length > inbyte THEN fail(ECStatus.EC_LENGTH_ERROR)
        ELSE IF h.byte_length < 8 \/ h.byte_length % 4 # 0
             THEN fail(ECStatus.EC_DIFF_ERROR)
        ELSE IF words # k /\ words # (k + 1) \div 2
             THEN fail(ECStatus.EC_SAMP_ERROR)
        ELSE IF check_value(samples) # i32(buf, off + h.byte_length - 4)
             THEN fail(ECStatus.EC_CHECK_ERROR)
        ELSE [status |-> ECStatus.EC_SUCCESS, samples |-> samples,
              bytes_consumed |-> h.byte_length]

RECURSIVE decompress_blocks(_, _, _, _, _)
decompress_blocks(buf, off, inbyte, acc, outsamp) ==
    IF Len(acc) >= outsamp
    THEN [status |-> ECStatus.EC_SUCCESS, out |-> SubSeq(acc, 1, outsamp)]
    ELSE LET b == decode(buf, off, inbyte)
         IN  IF b.status # ECStatus.EC_SUCCESS
             THEN [status |-> b.status, out |-> acc \o Zeros(outsamp - Len(acc))]
             ELSE decompress_blocks(buf, off + b.bytes_consumed, inbyte,
                                    acc \o b.samples, outsamp)

\* e_decomp(in, out, insamp, inbyte, out0, outsamp) with out0 = 0: the status
\* returned and what is left in the zero-initialised out array
e_decomp(in, insamp, inbyte, outsamp) ==
    decompress_blocks(in, 0, inbyte, << >>, outsamp)

(***************************************************************************)
(* The binding, src/e1.py.  A call of the native library is given by its   *)
(* outcome: native.status, and native.out (e_decomp: the out array) or     *)
(* native.stream and native.outbytes (e_comp).                             *)
(***************************************************************************)
\* np.frombuffer(buff, dtype=np.int32) raises ValueError unless len(buff) is a
\* multiple of the item size
frombuffer_ok(buff) == Len(buff) % 4 = 0

\* the arguments decompress hands to e_decomp; held is the size in bytes of
\* the array w behind the in pointer
decompress_args(buff, cnt) ==
    [held |-> Len(buff), insamp |-> cnt, inbyte |-> Len(buff),
     out0 |-> 0, outsamp |-> cnt]

\* decompress without the status check of lines 90-92
decompress_unchecked(buff, cnt, native) ==
    IF ~frombuffer_ok(buff)
    THEN RaiseValueError("buffer size must be a multiple of element size")
    ELSE Return(native.out)

decompress(buff, cnt, native) ==
    IF ~frombuffer_ok(buff)
    THEN RaiseValueError("buffer size must be a multiple of element size")
    ELSE IF native.status # ECStatus.EC_SUCCESS
         THEN RaiseStatus(native.status)
         ELSE Return(native.out)

\* size in bytes of out = np.zeros(len(data), dtype='>u4')
out_nbytes(samples) == 4 * Len(samples)

\* out.tobytes()[:outbytes]: the encoder's bytes as far as out holds them,
\* zeros where the encoder wrote nothing
out_slice(samples, native) ==
    LET n == Min(native.outbytes, out_nbytes(samples))
    IN  [i \in 1..n |-> IF i <= Len(native.stream) THEN native.stream[i] ELSE 0]

\* The outcomes of compress(data).  When the encoder writes more than out
\* holds, it writes past the end of the array: the call may go on with the
\* memory behind out overwritten, or the process may die.
compress(samples, native) ==
    LET done == IF native.status # ECStatus.EC_SUCCESS
                THEN RaiseStatus(native.status)
                ELSE Return(out_slice(samples, native))
    IN  IF native.outbytes > out_nbytes(samples)
        THEN {done, Crash}
        ELSE {done}

\* fobj.read(n) at position pos: n bytes or what is left; everything that is
\* left when n is negative
read(f, pos, n) ==
    IF n < 0 THEN SubSeq(f, pos + 1, Len(f))
    ELSE SubSeq(f, pos + 1, Min(pos + n, Len(f)))

\* decompress_file reading flen bytes instead of flen 4-byte values
decompress_file_bytes(f, pos, cnt) ==
    LET left == Len(f) - pos
        flen == IF left > 5 * cnt THEN 5 * cnt ELSE left
        byts == read(f, pos, flen)
    IN  [byts |-> byts, cnt |-> cnt, pos |-> pos + Len(byts)]

\* decompress_file up to its call of decompress: the bytes read and the
\* stream position left behind
decompress_file(f, pos, cnt) ==
    LET foff == pos                         \* fobj.tell()
        size == Len(f)                      \* fobj.seek(0, os.SEEK_END)
        left == size - foff                 \* after fobj.seek(foff)
        flen == IF left > 5 * cnt THEN 5 * cnt ELSE left
        byts == read(f, foff, flen * 4)
    IN  [byts |-> byts, cnt |-> cnt, pos |-> foff + Len(byts)]

\* np.fromfile(f, count=n, dtype=np.int32) at position pos: n items, or as
\* many whole items as the file still holds
fromfile(f, pos, n) ==
    LET items == Min(n, (Len(f) - pos) \div 4)
    IN  SubSeq(f, pos + 1, pos + 4 * items)

\* e_compression up to its call of e_decomp.  raised: the ValueError of a
\* BYTEOFFSET past the end; closed: f.close() was reached
e_compression(f, BYTEOFFSET, NUM) ==
    LET size == Len(f)                      \* os.stat(DATAFILE).st_size
        left == size - BYTEOFFSET
        flen == IF left > 5 * NUM THEN 5 * NUM ELSE left
        w == fromfile(f, BYTEOFFSET, flen)
    IN  IF size < BYTEOFFSET
        THEN [raised |-> TRUE, closed |-> FALSE, pos |-> 0, w |-> << >>,
              args |-> [held |-> 0, insamp |-> 0, inbyte |-> 0,
                        out0 |-> 0, outsamp |-> 0]]
        ELSE [raised |-> FALSE, closed |-> TRUE,
              pos |-> BYTEOFFSET + Len(w), w |-> w,
              args |-> [held |-> Len(w), insamp |-> NUM, inbyte |-> flen,
                        out0 |-> 0, outsamp |-> NUM]]

\* what e_compression hands back once e_decomp has returned
e_compression_return(native) == Return(native.out)

(***************************************************************************)
(* Specification Spec: compress a sample sequence, decompress the result,  *)
(* decompress it again with trailing bytes, over the modelled codec        *)
(***************************************************************************)
Kinds == {"narrow", "wide", "extreme", "mixed"}

Sample(kind, i) ==
    CASE kind = "narrow" -> ((i * 37) % 201) - 100
      [] kind = "wide" -> IF i % 2 = 1 THEN 8000000 - i ELSE i - 8000000
      [] kind = "extreme" -> IF i % 2 = 1 THEN 2147483647 ELSE (-2147483647) - 1
      [] OTHER -> IF i = 1 THEN 70000 ELSE ((i * 37) % 201) - 100

Lens ==
    { n \in { b * capacity_samples(datatype) + d :
                b \in 0..MaxBlocks, d \in (-Delta)..Delta } : n >= 0 }

Inputs == { [i \in 1..n |-> Sample(kind, i)] : n \in Lens, kind \in Kinds }

Paddings == { [i \in 1..n |-> v] : n \in 1..MaxPad, v \in {0, 255} }

NoNative == [status |-> NoValue, outbytes |-> 0, nbytes |-> 0, blocks |-> << >>]
NoCall ==
    [fn |-> "", held |-> 0, inbyte |-> 0, insamp |-> 0, status |-> NoValue,
     out |-> << >>]
NoDCall == [buff |-> << >>, cnt |-> NoValue]

BindingIdle ==
    /\ file = << >> /\ offset = 0 /\ fpos = 0 /\ fopen = FALSE /\ op = "idle" /\ count = 0
    /\ dcall = NoDCall /\ ncall = NoCall /\ ncalls = 0 /\ ret = NoResult

Init ==
    /\ pc = "start"
    /\ data \in Inputs
    /\ nat = NoNative
    /\ comp = NoResult
    /\ plain = NoResult
    /\ pad = << >>
    /\ padded = NoResult
    /\ BindingIdle

\* comp = e1.compress(data)
Compress ==
    /\ pc = "start"
    /\ LET native == e_comp(data, datatype)
       IN  /\ nat' = [status |-> native.status, outbytes |-> native.outbytes,
                      nbytes |-> out_nbytes(data), blocks |-> native.blocks]
           /\ comp' \in compress(data, native)
    /\ pc' = "compressed"
    /\ UNCHANGED <<data, plain, pad, padded>>
    /\ UNCHANGED bindingVars

\* e1.decompress(comp, len(data))
Decompress ==
    /\ pc = "compressed"
    /\ comp.kind = "return"
    /\ plain' = decompress(comp.data, Len(data),
                           e_decomp(comp.data, Len(data), Len(comp.data), Len(data)))
    /\ pc' = "decoded"
    /\ UNCHANGED <<data, nat, comp, pad, padded>>
    /\ UNCHANGED bindingVars

\* e1.decompress(comp + t, len(data))
DecompressPadded ==
    /\ pc = "decoded"
    /\ \E t \in Paddings :
          LET buff == comp.data \o t
          IN  /\ pad' = t
              /\ padded' = decompress(buff, Len(data),
                                      e_decomp(buff, Len(data), Len(buff), Len(data)))
    /\ pc' = "padded"
    /\ UNCHANGED <<data, nat, comp, plain>>
    /\ UNCHANGED bindingVars

Next == Compress \/ Decompress \/ DecompressPadded

Spec == Init /\ [][Next]_vars

(***************************************************************************)
(* The blocks of a byte string, walked by their headers as the test's      *)
(* _analyse_blocks does: ok is FALSE when the walk meets fewer than 4      *)
(* bytes of header (struct.error) or a byte_length of 0 (no progress)      *)
(***************************************************************************)
RECURSIVE analyse_blocks(_, _)
analyse_blocks(buf, off) ==
    IF off >= Len(buf) THEN [ok |-> TRUE, end |-> off, blocks |-> << >>]
    ELSE IF off + 4 > Len(buf) THEN [ok |-> FALSE, end |-> off, blocks |-> << >>]
    ELSE LET h == read_header(buf, off)
         IN  IF h.byte_length = 0
             THEN [ok |-> FALSE, end |-> off, blocks |-> << h >>]
             ELSE LET rest == analyse_blocks(buf, off + h.byte_length)
                  IN  [ok |-> rest.ok, end |-> rest.end,
                       blocks |-> << h >> \o rest.blocks]

Compressed == pc \in {"compressed", "decoded", "padded"}

(***************************************************************************)
(* C1  Round trip: decompress(compress(s), len(s)) returns s, for every    *)
(* sample sequence s (lengths 0, 1, 510, 511 included).                    *)
(***************************************************************************)
C1_RoundTrip ==
    /\ Compressed => comp.kind = "return"
    /\ pc \in {"decoded", "padded"} => plain = Return(data)

(***************************************************************************)
(* C2  Padding tolerance: decompress(compress(s) + t, len(s)) succeeds and *)
(* returns what decompress(compress(s), len(s)) returns, for trailing      *)
(* bytes t of any length and content.                                      *)
(***************************************************************************)
C2_PaddingTolerance ==
    pc = "padded" => padded.kind = "return" /\ padded = plain

(***************************************************************************)
(* C3  Block boundaries: the byte string compress returns for L samples    *)
(* holds ceil(L / 510) blocks, each but the last of sample_count 510, the  *)
(* last of sample_count L - (blocks - 1) * 510 and encoded SHORT_END.      *)
(***************************************************************************)
C3_BlockBoundaries ==
    Compressed /\ comp.kind = "return" =>
        LET a == analyse_blocks(comp.data, 0)
            cap == capacity_samples(datatype)
            nb == block_count(Len(data), datatype)
        IN  /\ a.ok
            /\ Len(a.blocks) = nb
            /\ \A j \in 1..(nb - 1) : a.blocks[j].sample_count = cap
            /\ nb > 0 => /\ a.blocks[nb].sample_count = Len(data) - (nb - 1) * cap
                         /\ nat.blocks[nb].flag = "SHORT_END"

(***************************************************************************)
(* C4  Header self-consistency: in the byte string compress returns, every *)
(* block's byte_length is a multiple of 4, at least 4, and the block's     *)
(* true serialized size; the walk by byte_length ends on len(output).      *)
(***************************************************************************)
C4_HeaderSelfConsistency ==
    Compressed /\ comp.kind = "return" =>
        LET a == analyse_blocks(comp.data, 0)
        IN  /\ a.ok
            /\ a.end = Len(comp.data)
            /\ Len(a.blocks) = Len(nat.blocks)
            /\ \A j \in 1..Len(a.blocks) :
                  /\ a.blocks[j].byte_length % 4 = 0
                  /\ a.blocks[j].byte_length >= 4
                  /\ a.blocks[j].byte_length = nat.blocks[j].byte_length

(***************************************************************************)
(* C8  Output buffer bound: the bytes the encoder reports as written       *)
(* (outbytes) never exceed 4 * n, the size of the array compress allocates *)
(* for n samples.                                                          *)
(***************************************************************************)
C8_OutputBufferBound ==
    Compressed => nat.outbytes <= nat.nbytes

(***************************************************************************)
(* Specification SpecBinding: one call of a binding function, the native   *)
(* library opaque.  e_decomp may return any status and leave the out array *)
(* untouched or written; when it is told of more input bytes than the      *)
(* array behind in holds it reads past it, and the process may die.        *)
(* e_comp may return any status having written nothing or filled out, or   *)
(* succeed having written past out.                                        *)
(***************************************************************************)
FileOf(n) == [i \in 1..n |-> (7 * i) % 256]

DecompOutcomes(args) ==
    { [status |-> st, out |-> o, died |-> FALSE] :
        st \in StatusCodes,
        o \in {Zeros(args.outsamp), [i \in 1..args.outsamp |-> i]} }
    \cup (IF args.inbyte > args.held
          THEN {[status |-> NoValue, out |-> << >>, died |-> TRUE]}
          ELSE {})

CompOutcomes(samples) ==
    { [status |-> st, outbytes |-> n, stream |-> [i \in 1..n |-> 1]] :
        st \in StatusCodes, n \in {0, out_nbytes(samples)} }
    \cup { [status |-> ECStatus.EC_SUCCESS, outbytes |-> out_nbytes(samples) + 4,
            stream |-> [i \in 1..(out_nbytes(samples) + 4) |-> 1]] }

NativeCall(fn, args, native) ==
    [fn |-> fn, held |-> args.held, inbyte |-> args.inbyte,
     insamp |-> args.insamp, status |-> native.status, out |-> native.out]

InitBinding ==
    /\ pc = "idle" /\ nat = NoNative /\ comp = NoResult
    /\ plain = NoResult /\ pad = << >> /\ padded = NoResult
    /\ count \in 0..MaxCount
    /\ data = [i \in 1..count |-> i]
    /\ file \in {FileOf(n) : n \in 0..MaxFile}
    /\ offset \in 0..(Len(file) + 1)
    /\ fpos = offset
    /\ fopen = FALSE
    /\ op = "idle"
    /\ dcall = NoDCall
    /\ ncall = NoCall
    /\ ncalls = 0
    /\ ret = NoResult

\* the call decompress(buff, cnt), e_decomp's outcome chosen by the library
DoDecompress(buff, cnt) ==
    /\ dcall' = [buff |-> buff, cnt |-> cnt]
    /\ IF frombuffer_ok(buff)
       THEN \E native \in DecompOutcomes(decompress_args(buff, cnt)) :
               /\ ncall' = NativeCall("e_decomp", decompress_args(buff, cnt), native)
               /\ ncalls' = ncalls + 1
               /\ ret' = IF native.died THEN Crash
                         ELSE decompress(buff, cnt, native)
       ELSE /\ ret' = decompress(buff, cnt, [status |-> NoValue, out |-> << >>])
            /\ UNCHANGED <<ncall, ncalls>>

\* e1.decompress(buff, count) on the bytes of the file from offset on
CallDecompress ==
    /\ op = "idle"
    /\ offset <= Len(file)
    /\ op' = "decompress"
    /\ DoDecompress(SubSeq(file, offset + 1, Len(file)), count)
    /\ UNCHANGED <<file, offset, fpos, fopen, count>>
    /\ UNCHANGED codecVars

\* e1.compress(data)
CallCompress ==
    /\ op = "idle"
    /\ op' = "compress"
    /\ \E native \in CompOutcomes(data) :
          /\ ncall' = [fn |-> "e_comp", held |-> out_nbytes(data),
                       inbyte |-> 0, insamp |-> Len(data),
                       status |-> native.status, out |-> << >>]
          /\ ncalls' = ncalls + 1
          /\ ret' \in compress(data, native)
    /\ UNCHANGED <<file, offset, fpos, fopen, count, dcall>>
    /\ UNCHANGED codecVars

\* e1.decompress_file(fobj, count), fobj positioned at offset
CallDecompressFile ==
    /\ op = "idle"
    /\ op' = "decompress_file"
    /\ LET r == decompress_file(file, fpos, count)
       IN  /\ fpos' = r.pos
           /\ DoDecompress(r.byts, r.cnt)
    /\ UNCHANGED <<file, offset, fopen, count>>
    /\ UNCHANGED codecVars

\* e1.e_compression(DATAFILE, offset, count)
CallECompression ==
    /\ op = "idle"
    /\ op' = "e_compression"
    /\ LET r == e_compression(file, offset, count)
       IN  /\ fopen' = ~r.closed
           /\ fpos' = r.pos
           /\ IF r.raised
              THEN /\ ret' = RaiseValueError("BYTEOFFSET exceeds file size.")
                   /\ UNCHANGED <<ncall, ncalls>>
              ELSE \E native \in DecompOutcomes(r.args) :
                      /\ ncall' = NativeCall("e_decomp", r.args, native)
                      /\ ncalls' = ncalls + 1
                      /\ ret' = IF native.died THEN Crash
                                ELSE e_compression_return(native)
    /\ UNCHANGED <<file, offset, count, dcall>>
    /\ UNCHANGED codecVars

NextBinding ==
    CallDecompress \/ CallCompress \/ CallDecompressFile \/ CallECompression

SpecBinding == InitBinding /\ [][NextBinding]_vars

Failures == StatusCodes \ {ECStatus.EC_SUCCESS}

(***************************************************************************)
(* C5  All-or-nothing status propagation: decompress and compress hand     *)
(* data back only when the one native call made returned SUCCESS; on each  *)
(* of the eight other codes the call raises an Exception naming exactly    *)
(* that code and carrying its message, and hands back no array.            *)
(***************************************************************************)
C5_StatusPropagation ==
    op \in {"decompress", "compress", "decompress_file"} =>
        /\ ret.kind = "return" =>
              ncalls = 1 /\ ncall.status = ECStatus.EC_SUCCESS
        /\ ncall.status \in Failures =>
              /\ ncalls = 1
              /\ ret.kind = "raise"
              /\ ret.exc = "Exception"
              /\ ret.code \in DOMAIN ECStatus
              /\ ECStatus[ret.code] = ncall.status
              /\ ret.msg = E_MESSAGES[ncall.status + 1]
              /\ ret.data = << >>

\* a decode of a non-empty request that ended CHECK_ERROR and was raised
C5_Witness ==
    /\ op = "decompress"
    /\ count > 0
    /\ Len(dcall.buff) > 0
    /\ ncall.status = ECStatus.EC_CHECK_ERROR
    /\ ret.kind = "raise"
    /\ ret.code = "EC_CHECK_ERROR"

(***************************************************************************)
(* C6  decompress_file capping rule: with the stream at offset p and       *)
(* remaining_bytes = size - p, decompress_file(fobj, count) reads exactly  *)
(* min(remaining_bytes, 5 * count * 4) bytes starting at p, and returns    *)
(* what decompress returns for those bytes and the same count.             *)
(***************************************************************************)
C6_DecompressFileCap ==
    op = "decompress_file" /\ offset <= Len(file) =>
        LET remaining_bytes == Len(file) - offset
            n == Min(remaining_bytes, 5 * count * 4)
            byts == SubSeq(file, offset + 1, offset + n)
        IN  /\ dcall = [buff |-> byts, cnt |-> count]
            /\ fpos = offset + n
            /\ ret = decompress(byts, count,
                                [status |-> ncall.status, out |-> ncall.out])

\* the cap applies, the stream does not start at 0, and the decode succeeds
C6_Witness ==
    /\ op = "decompress_file"
    /\ offset > 0
    /\ count > 0
    /\ Len(file) - offset > 5 * count * 4
    /\ Len(dcall.buff) = 5 * count * 4
    /\ ret.kind = "return"

(***************************************************************************)
(* C7  e_compression returns the data vector and the decoder's return code *)
(* retval, so that a decode status is never dropped while an array is      *)
(* returned.                                                               *)
(***************************************************************************)
C7_ReturnsRetval ==
    op = "e_compression" /\ ret.kind = "return" =>
        ret.retval = ncall.status

(***************************************************************************)
(* C9  In every call of e_decomp, from decompress and from e_compression,  *)
(* inbyte is at most the number of bytes of the array passed as in.        *)
(***************************************************************************)
C9_InbyteWithinBuffer ==
    ncall.fn = "e_decomp" => ncall.inbyte <= ncall.held

(***************************************************************************)
(* C10  e_compression never leaves its file open: the handle is closed on  *)
(* normal return and on the ValueError, which is raised exactly when the   *)
(* file size is less than BYTEOFFSET and before any read or decode.        *)
(***************************************************************************)
C10_FileClosed ==
    op = "e_compression" =>
        /\ ~fopen
        /\ (ret.kind = "raise" /\ ret.exc = "ValueError") <=> Len(file) < offset
        /\ Len(file) < offset => ncalls = 0 /\ fpos = 0

====
